---- MODULE Spec2Model ----
(***************************************************************************)
(* ermos/backuprunner: the retention pass (utils.go), the filesystem       *)
(* Storage backend (storage_local.go), the object-store backend            *)
(* (S3Storage), the orchestrator Run(b Backup), and invocations of b.Run   *)
(* that overlap on one Storage handle.                                     *)
(*                                                                         *)
(* File names are Go strings, modelled as sequences of their bytes, so     *)
(* that strings.HasPrefix, strings.HasSuffix and sort.Strings are the      *)
(* byte-wise operations of the Go library.                                 *)
(***************************************************************************)
EXTENDS Integers, Sequences, FiniteSets, TLC

\* ------------------------------------------------------------------ bounds
\* largest RetentionCount a retention pass is called with
MaxRetention == 3
\* number of cron ticks that fire in one execution of the orchestrator
MaxTicks == 2
\* number of termination signals (SIGINT/SIGTERM) sent to the process
MaxSignals == 2
\* number of invocations of b.Run that overlap on the Storage handle
MaxRunners == 2

\* ------------------------------------------------------------ Go strings
\* "pg-backup_"
BackupPrefix == <<112, 103, 45, 98, 97, 99, 107, 117, 112, 95>>
\* ".dump"
ExtDump == <<46, 100, 117, 109, 112>>
\* ".sql"
ExtSql == <<46, 115, 113, 108>>
\* ".sql.gz"
ExtSqlGz == <<46, 115, 113, 108, 46, 103, 122>>
\* ".tar"
ExtTar == <<46, 116, 97, 114>>

\* "pg-backup_1.dump"
Name1 == <<112, 103, 45, 98, 97, 99, 107, 117, 112, 95, 49, 46, 100, 117, 109, 112>>
\* "pg-backup_10.dump"
Name10 == <<112, 103, 45, 98, 97, 99, 107, 117, 112, 95, 49, 48, 46, 100, 117, 109, 112>>
\* "pg-backup_2.sql.gz"
Name2 == <<112, 103, 45, 98, 97, 99, 107, 117, 112, 95, 50, 46, 115, 113, 108, 46, 103, 122>>
\* "pg-backup_3.tar"
Name3 == <<112, 103, 45, 98, 97, 99, 107, 117, 112, 95, 51, 46, 116, 97, 114>>
\* "readme.txt"
NameReadme == <<114, 101, 97, 100, 109, 101, 46, 116, 120, 116>>
\* "pg-backup_1.dump.tmp"
NameTmp == <<112, 103, 45, 98, 97, 99, 107, 117, 112, 95, 49, 46, 100, 117, 109, 112, 46, 116, 109, 112>>

\* "pg-backup_4.sql"
Name4 == <<112, 103, 45, 98, 97, 99, 107, 117, 112, 95, 52, 46, 115, 113, 108>>

\* the file names that occur in the backup directory
FileNames == {Name1, Name10, Name2, Name3, NameReadme, NameTmp}

\* the names the caller of the filesystem backend passes to Upload and Delete
CallNames == {Name3, Name4, NameReadme}

\* the names that occur there as sub-directories
DirNames == {Name3}

\* "/"
Slash == <<47>>
\* "."
Dot == <<46>>
\* "db"
PrefixDb == <<100, 98>>
\* "db/"
PrefixDbSlash == <<100, 98, 47>>
\* "db/pg-backup_1.dump"
KeyDb1 == <<100, 98, 47, 112, 103, 45, 98, 97, 99, 107, 117, 112, 95, 49, 46, 100,
            117, 109, 112>>
\* "db/old/pg-backup_1.dump"
KeyDbOld1 == <<100, 98, 47, 111, 108, 100, 47, 112, 103, 45, 98, 97, 99, 107, 117,
               112, 95, 49, 46, 100, 117, 109, 112>>
\* "db/pg-backup_3.tar"
KeyDb3 == <<100, 98, 47, 112, 103, 45, 98, 97, 99, 107, 117, 112, 95, 51, 46, 116,
            97, 114>>
\* "db/readme.txt"
KeyDbReadme == <<100, 98, 47, 114, 101, 97, 100, 109, 101, 46, 116, 120, 116>>

\* the keys that occur in the bucket before the program writes to it
KeyUniverse == {KeyDb1, KeyDbOld1, KeyDb3, KeyDbReadme, Name1}

\* the values of S3Storage.backupPrefix: "", "db", "db/"
S3Prefixes == {<<>>, PrefixDb, PrefixDbSlash}

\* the artifact names the caller of the object-store backend uses
S3Names == {Name1, Name3, NameReadme}

\* strings.HasPrefix(s, p)
HasPrefix(s, p) == Len(s) >= Len(p) /\ SubSeq(s, 1, Len(p)) = p

\* strings.HasSuffix(s, p)
HasSuffix(s, p) == Len(s) >= Len(p) /\ SubSeq(s, Len(s) - Len(p) + 1, Len(s)) = p

\* Go's s < t on strings: byte-wise lexicographic order
StrLess(s, t) ==
    \E k \in 1..(Len(s) + 1) :
        /\ k <= Len(t)
        /\ \A m \in 1..(k - 1) : s[m] = t[m]
        /\ (k = Len(s) + 1 \/ s[k] < t[k])

\* isBackupFile(name)
isBackupFile(name) ==
    /\ HasPrefix(name, BackupPrefix)
    /\ \/ HasSuffix(name, ExtDump)
       \/ HasSuffix(name, ExtSql)
       \/ HasSuffix(name, ExtSqlGz)
       \/ HasSuffix(name, ExtTar)

\* the least string of a non-empty set
MinStr(S) == CHOOSE x \in S : \A y \in S : y = x \/ StrLess(x, y)

\* sort.Strings over the names collected in a set: ascending sequence
RECURSIVE SortStrings(_)
SortStrings(S) ==
    IF S = {} THEN <<>>
    ELSE <<MinStr(S)>> \o SortStrings(S \ {MinStr(S)})

\* LocalStorage.List on a directory holding the regular files `entries`
List(entries) == SortStrings({n \in entries : isBackupFile(n)})

Range(q) == {q[k] : k \in 1..Len(q)}

\* strings.TrimSuffix(s, p)
TrimSuffix(s, p) == IF HasSuffix(s, p) THEN SubSeq(s, 1, Len(s) - Len(p)) ELSE s

\* a path without its trailing slashes
RECURSIVE StripSlashes(_)
StripSlashes(s) ==
    IF Len(s) > 0 /\ s[Len(s)] = 47
    THEN StripSlashes(SubSeq(s, 1, Len(s) - 1))
    ELSE s

\* the position of the last slash of a path, 0 when it has none
LastSlash(s) ==
    IF \E k \in 1..Len(s) : s[k] = 47
    THEN CHOOSE k \in 1..Len(s) : s[k] = 47 /\ \A m \in (k + 1)..Len(s) : s[m] /= 47
    ELSE 0

\* filepath.Base(path): the last element of the path
Base(path) ==
    IF path = <<>> THEN Dot
    ELSE LET t == StripSlashes(path) IN
         IF t = <<>> THEN Slash ELSE SubSeq(t, LastSlash(t) + 1, Len(t))

\* S3Storage.getKey, part_002:165-170
getKey(prefix, name) ==
    IF prefix = <<>> THEN name ELSE TrimSuffix(prefix, Slash) \o Slash \o name

\* part_002:107-110  the Prefix of the ListObjectsV2 request
ListPrefix(prefix) ==
    IF prefix /= <<>> /\ ~HasSuffix(prefix, Slash) THEN prefix \o Slash ELSE prefix

\* sort.Strings over the base names of a set of keys: two keys with one base
\* name give two elements
RECURSIVE SortByBase(_)
SortByBase(K) ==
    IF K = {} THEN <<>>
    ELSE LET k == CHOOSE x \in K : \A y \in K : ~StrLess(Base(y), Base(x)) IN
         <<Base(k)>> \o SortByBase(K \ {k})

\* S3Storage.List, part_002:106-138: the base name of every object under the
\* prefix that isBackupFile accepts, sorted
S3ListOf(keys, prefix) ==
    SortByBase({k \in keys : HasPrefix(k, ListPrefix(prefix)) /\ isBackupFile(Base(k))})

Max(a, b) == IF a >= b THEN a ELSE b

Min(a, b) == IF a <= b THEN a ELSE b

\* ------------------------------------------------------------------ state
VARIABLES
    \* --- the backup directory and one caller of the Storage handle
    dir,            \* names of the regular files under LocalStorage.basePath
    subdirs,        \* names of the sub-directories under LocalStorage.basePath
    retPc,          \* applyRetentionPolicy: "idle", "loop", "done"
    retentionCount, \* its retentionCount argument
    backups,        \* its local `backups`, the listing List returned
    idx,            \* its loop variable i
    listErr,        \* whether s.List returned an error (err at utils.go:12)
    retResult,      \* its return value: "none", "nil", "error"
    prior,          \* dir when the pass was called
    deleteCalls,    \* the names Delete was called with, in call order
    deleteFailed,   \* the names whose Delete returned an error
    upPc,           \* LocalStorage.Upload: "idle", "create", "select", "returned"
    upName,         \* its backupName argument
    upPrior,        \* dir when Upload was called
    ctxDone,        \* whether its ctx is cancelled or expired by now
    ctxDoneAtCall,  \* whether its ctx was cancelled or expired when it was called
    copyPc,         \* the copy goroutine: "none", "copying", "sent"
    done,           \* the channel `done` (capacity 1)
    upResult,       \* its return value: "none", "nil", "openErr", "createErr",
                    \* "copyErr", "ctxErr"
    \* --- List and Delete called by the caller itself
    listRes,        \* what the last List returned: "none", "nil", "error"
    listOut,        \* the listing it returned
    prevOut,        \* the listing of the List before it, when no other call
                    \* came between the two (NoList otherwise)
    delName,        \* the argument of the last Delete
    delRes,         \* what it returned: "none", "nil", "error"
    \* --- the object-store backend S3Storage
    bucket,         \* the keys of the objects in the bucket
    backupPrefix,   \* S3Storage.backupPrefix
    s3Up,           \* the last Upload: its argument and result
    s3Del,          \* the last Delete: its argument, result and the bucket before
    s3List,         \* the last List: its result and the listing
    \* --- overlapping invocations of b.Run on one LocalStorage
    workers,        \* per invocation: where it is, the listing its retention
                    \* pass holds and its loop variable
    conRc,          \* cfg.RetentionCount, the same for all of them
    \* --- the orchestrator Run(b Backup)
    pc,             \* the statement the main goroutine of Run is at
    cfg,            \* the *Config that b.Config() returned
    err,            \* Run's variable err, which the cron closure captures
    result,         \* what Run returned: "none", "nil", "error"
    failedAt,       \* the startup call that returned an error, or "none"
    cron,           \* the scheduler c: "none", "new", "registered", "running",
                    \* "stopped"
    notified,       \* whether signal.Notify(sigChan, SIGINT, SIGTERM) was called
    sigChan,        \* number of signals buffered in sigChan (capacity 1)
    nSignals,       \* termination signals sent to the process so far
    runs,           \* the invocations of b.Run: 0 is the startup-triggered
                    \* one, j >= 1 the one the j-th cron tick started
    nTicks,         \* cron ticks fired so far
    ticksAtRecv,    \* nTicks when main received the signal (-1 before)
    ticksAtStop,    \* nTicks when c.Stop() was called (-1 before)
    inFlightAtRecv, \* the jobs in flight when main received the signal
    calls           \* the startup calls made so far, in order, each with
                    \* whether it succeeded

storVars == <<dir, subdirs, retPc, retentionCount, backups, idx, listErr, retResult, prior,
              deleteCalls, deleteFailed, upPc, upName, upPrior, ctxDone,
              ctxDoneAtCall, copyPc, done, upResult>>

retVars == <<retPc, retentionCount, backups, idx, listErr, retResult, prior,
             deleteCalls, deleteFailed>>

upVars == <<upPc, upName, upPrior, ctxDone, ctxDoneAtCall, copyPc, done, upResult>>

orchVars == <<pc, cfg, err, result, failedAt, cron, notified, sigChan, nSignals,
              runs, nTicks, ticksAtRecv, ticksAtStop, inFlightAtRecv, calls>>

callVars == <<listRes, listOut, prevOut, delName, delRes>>

conVars == <<workers, conRc>>

otherVars == <<bucket, backupPrefix, s3Up, s3Del, s3List, workers, conRc>>

vars == <<storVars, callVars, otherVars, orchVars>>

\* ------------------------------------------------ values of the orchestrator
\* the schedule expressions a configuration carries: five fields, and six
CronExprs == {"0 2 * * *", "0 2 * * * *"}

\* the same test with the bug "the parser takes an optional seconds field"
ScheduleOK_any(expr) == expr \in CronExprs

\* c.AddFunc accepts the expression: cron.New() parses the standard five fields
ScheduleOK(expr) == expr = "0 2 * * *"

Configs == [BackupOnStart : BOOLEAN, BackupCron : CronExprs]

NoConfig == [BackupOnStart |-> FALSE, BackupCron |-> ""]

\* context.Background(): no deadline, never done
Background == [deadline |-> FALSE, err |-> "nil"]

\* context.WithTimeout(context.Background(), BackupTimeout minutes)
WithTimeout == [deadline |-> TRUE, err |-> "nil"]

RunIds == 0..MaxTicks

JobIds == 1..MaxTicks

\* an invocation of b.Run: st is "none", "running", "assigned" (Run has
\* returned and the closure has stored the result in err), "done", or
\* "aborted" (the process ended while Run was executing); ret is what Run
\* returned; logged is whether a "... failed" line was logged for it;
\* failedBefore is the invocations that had returned an error when it started
NoRun == [st |-> "none", ctx |-> Background, ret |-> "none", logged |-> FALSE,
          failedBefore |-> {}]

\* ------------------------------------------------ the retention pass
\* utils.go:17  len(backups) <= retentionCount
WithinLimit(bk, rc) == Len(bk) <= rc

\* the same count with an off-by-one bug
toDelete_short(bk, rc) == Len(bk) - rc - 1

\* utils.go:23  toDelete := len(backups) - retentionCount
toDelete(bk, rc) == Len(bk) - rc

\* the same selection with the bug "walk the listing from its newest end"
DeleteTarget_newest(bk, k) == bk[Len(bk) - k]

\* utils.go:26  backups[i], i counted from 0
DeleteTarget(bk, k) == bk[k + 1]

\* LocalStorage.Delete: os.Remove fails when the file is missing or on an
\* I/O error (ioOk = FALSE); otherwise the one file is removed
DeleteSucceeds(entries, name, ioOk) == name \in entries /\ ioOk

DeleteEffect(entries, name) == entries \ {name}

\* no call on the Storage handle is in progress
Quiescent ==
    /\ retPc \in {"idle", "done"}
    /\ upPc \in {"idle", "returned"}
    /\ copyPc \in {"none", "sent"}

\* the caller forgets the previous Upload when it starts a new call
ForgetUpload ==
    /\ upPc' = "idle"
    /\ upName' = <<>>
    /\ upPrior' = {}
    /\ ctxDone' = FALSE
    /\ ctxDoneAtCall' = FALSE
    /\ copyPc' = "none"
    /\ done' = <<>>
    /\ upResult' = "none"

\* no listing to compare the next List with
NoList == [valid |-> FALSE, out |-> <<>>]

\* the caller forgets its previous List and Delete when it starts a new call
ForgetCalls ==
    /\ listRes' = "none"
    /\ listOut' = <<>>
    /\ prevOut' = NoList
    /\ delName' = <<>>
    /\ delRes' = "none"

\* the caller forgets the previous retention pass when it starts a new call
ForgetRetention ==
    /\ retPc' = "idle"
    /\ retentionCount' = 0
    /\ backups' = <<>>
    /\ idx' = 0
    /\ listErr' = FALSE
    /\ retResult' = "none"
    /\ prior' = {}
    /\ deleteCalls' = <<>>
    /\ deleteFailed' = {}

\* the same step with the bug "a failed List counts as an empty listing"
RetListFail_swallow(rc) ==
    /\ Quiescent
    /\ listErr' = TRUE
    /\ retPc' = "done"
    /\ retResult' = "nil"
    /\ retentionCount' = rc
    /\ backups' = <<>>
    /\ idx' = 0
    /\ prior' = dir
    /\ deleteCalls' = <<>>
    /\ deleteFailed' = {}
    /\ ForgetUpload
    /\ ForgetCalls
    /\ UNCHANGED <<dir, orchVars, subdirs, otherVars>>

\* applyRetentionPolicy, utils.go:12-15: s.List fails, the pass returns an error
RetListFail(rc) ==
    /\ Quiescent
    /\ listErr' = TRUE
    /\ retPc' = "done"
    /\ retResult' = "error"
    /\ retentionCount' = rc
    /\ backups' = <<>>
    /\ idx' = 0
    /\ prior' = dir
    /\ deleteCalls' = <<>>
    /\ deleteFailed' = {}
    /\ ForgetUpload
    /\ ForgetCalls
    /\ UNCHANGED <<dir, orchVars, subdirs, otherVars>>

\* applyRetentionPolicy, utils.go:12-23: s.List succeeds; return nil when the
\* count is within the limit, else enter the loop with i = 0
RetListOk(rc) ==
    /\ Quiescent
    /\ listErr' = FALSE
    /\ retentionCount' = rc
    /\ backups' = List(dir)
    /\ idx' = 0
    /\ prior' = dir
    /\ deleteCalls' = <<>>
    /\ deleteFailed' = {}
    /\ IF WithinLimit(List(dir), rc)
       THEN retPc' = "done" /\ retResult' = "nil"
       ELSE retPc' = "loop" /\ retResult' = "none"
    /\ ForgetUpload
    /\ ForgetCalls
    /\ UNCHANGED <<dir, orchVars, subdirs, otherVars>>

\* the same iteration with the bug "return on the first failed Delete"
RetDelete_abort ==
    /\ retPc = "loop"
    /\ idx < toDelete(backups, retentionCount)
    /\ \E ioOk \in BOOLEAN :
        LET name == DeleteTarget(backups, idx) IN
        /\ deleteCalls' = Append(deleteCalls, name)
        /\ IF DeleteSucceeds(dir, name, ioOk)
           THEN /\ dir' = DeleteEffect(dir, name)
                /\ UNCHANGED <<deleteFailed, retPc, retResult>>
           ELSE /\ deleteFailed' = deleteFailed \cup {name}
                /\ retPc' = "done"
                /\ retResult' = "error"
                /\ UNCHANGED dir
    /\ idx' = idx + 1
    /\ UNCHANGED <<retentionCount, backups, listErr, prior, upVars, orchVars,
                   subdirs, callVars, otherVars>>

\* applyRetentionPolicy, utils.go:24-29: one iteration of the loop; a failed
\* Delete is logged and the loop goes on
RetDelete ==
    /\ retPc = "loop"
    /\ idx < toDelete(backups, retentionCount)
    /\ \E ioOk \in BOOLEAN :
        LET name == DeleteTarget(backups, idx) IN
        /\ deleteCalls' = Append(deleteCalls, name)
        /\ IF DeleteSucceeds(dir, name, ioOk)
           THEN dir' = DeleteEffect(dir, name) /\ UNCHANGED deleteFailed
           ELSE deleteFailed' = deleteFailed \cup {name} /\ UNCHANGED dir
    /\ idx' = idx + 1
    /\ UNCHANGED <<retPc, retentionCount, backups, listErr, retResult, prior,
                   upVars, orchVars, subdirs, callVars, otherVars>>

\* applyRetentionPolicy, utils.go:24,31-32: the loop is over, return nil
RetReturn ==
    /\ retPc = "loop"
    /\ ~(idx < toDelete(backups, retentionCount))
    /\ retPc' = "done"
    /\ retResult' = "nil"
    /\ UNCHANGED <<dir, retentionCount, backups, idx, listErr, prior,
                   deleteCalls, deleteFailed, upVars, orchVars, subdirs,
                   callVars, otherVars>>

\* --------------------------------------------- LocalStorage.Upload
\* storage_local.go:33-39: os.Open of the source; an error returns at once
UpOpen(name, cancelled) ==
    /\ Quiescent
    /\ upName' = name
    /\ upPrior' = dir
    /\ ctxDone' = cancelled
    /\ ctxDoneAtCall' = cancelled
    /\ copyPc' = "none"
    /\ done' = <<>>
    /\ \E ok \in BOOLEAN :
        IF ok THEN upPc' = "create" /\ upResult' = "none"
        ELSE upPc' = "returned" /\ upResult' = "openErr"
    /\ ForgetRetention
    /\ ForgetCalls
    /\ UNCHANGED <<dir, orchVars, subdirs, otherVars>>

\* the same step with the bug "the destination is created outside basePath"
UpCreate_elsewhere ==
    /\ upPc = "create"
    /\ \E ok \in BOOLEAN :
        IF ok /\ upName \notin subdirs
        THEN /\ upPc' = "select"
             /\ copyPc' = "copying"
             /\ UNCHANGED <<dir, upResult>>
        ELSE /\ upPc' = "returned"
             /\ upResult' = "createErr"
             /\ UNCHANGED <<dir, copyPc>>
    /\ UNCHANGED <<retVars, upName, upPrior, ctxDone, ctxDoneAtCall, done,
                   orchVars, subdirs, callVars, otherVars>>

\* storage_local.go:46-62: os.Create of the destination (the file exists from
\* here on; a directory of that name makes it fail), make(chan error, 1) and
\* the go statement of the copy goroutine
UpCreate ==
    /\ upPc = "create"
    /\ \E ok \in BOOLEAN :
        IF ok /\ upName \notin subdirs
        THEN /\ dir' = dir \cup {upName}
             /\ upPc' = "select"
             /\ copyPc' = "copying"
             /\ UNCHANGED upResult
        ELSE /\ upPc' = "returned"
             /\ upResult' = "createErr"
             /\ UNCHANGED <<dir, copyPc>>
    /\ UNCHANGED <<retVars, upName, upPrior, ctxDone, ctxDoneAtCall, done,
                   orchVars, subdirs, callVars, otherVars>>

\* storage_local.go:59-62: the goroutine's io.Copy ends and its result is sent
\* on `done`; the buffer of one slot takes it without a receiver
UpCopy ==
    /\ copyPc = "copying"
    /\ \E e \in {"nil", "copyErr"} : done' = Append(done, e)
    /\ copyPc' = "sent"
    /\ UNCHANGED <<dir, retVars, upPc, upName, upPrior, ctxDone,
                   ctxDoneAtCall, upResult, orchVars, subdirs, callVars,
                   otherVars>>

\* storage_local.go:64-66: the select takes case <-ctx.Done()
UpSelectCtx ==
    /\ upPc = "select"
    /\ ctxDone
    /\ upPc' = "returned"
    /\ upResult' = "ctxErr"
    /\ UNCHANGED <<dir, retVars, upName, upPrior, ctxDone, ctxDoneAtCall,
                   copyPc, done, orchVars, subdirs, callVars, otherVars>>

\* storage_local.go:67-73: the select takes case err = <-done
UpSelectDone ==
    /\ upPc = "select"
    /\ done /= <<>>
    /\ upPc' = "returned"
    /\ upResult' = Head(done)
    /\ done' = Tail(done)
    /\ UNCHANGED <<dir, retVars, upName, upPrior, ctxDone, ctxDoneAtCall,
                   copyPc, orchVars, subdirs, callVars, otherVars>>

\* the ctx of the Upload in progress is cancelled or its deadline expires
CtxCancel ==
    /\ upPc \in {"create", "select"}
    /\ ~ctxDone
    /\ ctxDone' = TRUE
    /\ UNCHANGED <<dir, retVars, upPc, upName, upPrior, ctxDoneAtCall, copyPc,
                   done, upResult, orchVars, subdirs, callVars, otherVars>>

\* ------------------------------------- List and Delete of LocalStorage
\* os.ReadDir(basePath): every entry with its IsDir()
ReadDir(files, dirs) ==
    {[name |-> n, isDir |-> n \in dirs] : n \in files \cup dirs}

\* the same filter with the bug "directories are not skipped"
RegularFiles_all(entries) == {e.name : e \in entries}

\* storage_local.go:85  !entry.IsDir()
RegularFiles(entries) == {e.name : e \in {x \in entries : ~x.isDir}}

\* LocalStorage.List, storage_local.go:77-94, called by the caller itself
LocalList ==
    /\ Quiescent
    /\ \E ok \in BOOLEAN :
        IF ok
        THEN /\ listRes' = "nil"
             /\ listOut' = List(RegularFiles(ReadDir(dir, subdirs)))
        ELSE /\ listRes' = "error"
             /\ listOut' = <<>>
    /\ prevOut' = IF listRes = "nil" THEN [valid |-> TRUE, out |-> listOut]
                   ELSE NoList
    /\ UNCHANGED <<delName, delRes, storVars, otherVars, orchVars>>

\* LocalStorage.Delete, storage_local.go:97-103, called by the caller itself:
\* os.Remove removes the file, or the directory of that name when it is empty
LocalDelete(name) ==
    /\ Quiescent
    /\ delName' = name
    /\ \E ioOk \in BOOLEAN, empty \in BOOLEAN :
        IF DeleteSucceeds(dir, name, ioOk)
        THEN /\ dir' = DeleteEffect(dir, name)
             /\ delRes' = "nil"
             /\ UNCHANGED subdirs
        ELSE IF name \in subdirs /\ empty /\ ioOk
        THEN /\ subdirs' = subdirs \ {name}
             /\ delRes' = "nil"
             /\ UNCHANGED dir
        ELSE /\ delRes' = "error"
             /\ UNCHANGED <<dir, subdirs>>
    /\ listRes' = "none"
    /\ listOut' = <<>>
    /\ prevOut' = NoList
    /\ ForgetUpload
    /\ ForgetRetention
    /\ UNCHANGED <<otherVars, orchVars>>

\* --------------------------------------------- the backend S3Storage
NoS3Up == [name |-> <<>>, res |-> "none"]

NoS3Del == [name |-> <<>>, res |-> "none", before |-> {}]

NoS3List == [res |-> "none", out |-> <<>>]

\* S3Storage.Upload, part_002:80-103: os.Open of the source, then
\* uploader.Upload under the key getKey(backupName)
S3Upload(name) ==
    /\ \E opened \in BOOLEAN, sent \in BOOLEAN :
        IF opened /\ sent
        THEN /\ bucket' = bucket \cup {getKey(backupPrefix, name)}
             /\ s3Up' = [name |-> name, res |-> "nil"]
        ELSE /\ s3Up' = [name |-> name, res |-> "error"]
             /\ UNCHANGED bucket
    /\ s3Del' = NoS3Del
    /\ s3List' = NoS3List
    /\ UNCHANGED <<backupPrefix, storVars, callVars, conVars, orchVars>>

\* S3Storage.List, part_002:106-138
S3List ==
    /\ \E ok \in BOOLEAN :
        IF ok
        THEN s3List' = [res |-> "nil", out |-> S3ListOf(bucket, backupPrefix)]
        ELSE s3List' = [res |-> "error", out |-> <<>>]
    /\ UNCHANGED <<bucket, backupPrefix, s3Up, s3Del, storVars, callVars,
                   conVars, orchVars>>

\* S3Storage.Delete, part_002:141-153: DeleteObject of the key
\* getKey(backupName); the service answers success whether or not an object
\* has that key, and the call fails only when the request does
S3Delete(name) ==
    /\ \E ok \in BOOLEAN :
        IF ok
        THEN /\ bucket' = bucket \ {getKey(backupPrefix, name)}
             /\ s3Del' = [name |-> name, res |-> "nil", before |-> bucket]
        ELSE /\ s3Del' = [name |-> name, res |-> "error", before |-> bucket]
             /\ UNCHANGED bucket
    /\ s3Up' = NoS3Up
    /\ s3List' = NoS3List
    /\ UNCHANGED <<backupPrefix, storVars, callVars, conVars, orchVars>>

\* the object-store backend is not in use
S3Idle ==
    /\ bucket = {}
    /\ backupPrefix = <<>>
    /\ s3Up = NoS3Up
    /\ s3Del = NoS3Del
    /\ s3List = NoS3List

\* ------------------------- overlapping runs on one LocalStorage handle
RunnerIds == 1..MaxRunners

\* the names the overlapping runs give their artifacts
NewNames == {Name2, Name3, Name4}

\* the artifacts stored before the first of the overlapping runs
OldNames == {Name1, Name10}

\* an invocation of b.Run that has not started
NoWorker == [pc |-> "idle", backups |-> <<>>, idx |-> 0]

\* an invocation of b.Run that has returned
DoneWorker == [NoWorker EXCEPT !.pc = "done"]

\* no overlapping runs
ConIdle ==
    /\ workers = [r \in RunnerIds |-> NoWorker]
    /\ conRc = 0

\* a scheduled b.Run starts (part_001:64-69) and calls Upload with a name
\* larger than every stored one; storage_local.go:47 creates the file, and
\* whether Upload then succeeds decides if the retention pass follows.  The
\* invocations are numbered in the order of their Upload
WUpload(r, name) ==
    /\ workers[r].pc = "idle"
    /\ \A q \in 1..(r - 1) : workers[q].pc /= "idle"
    /\ \A x \in {n \in dir : isBackupFile(n)} : StrLess(x, name)
    /\ dir' = dir \cup {name}
    /\ \E ok \in BOOLEAN :
        workers' = [workers EXCEPT ![r] =
            IF ok THEN [NoWorker EXCEPT !.pc = "list"] ELSE DoneWorker]
    /\ UNCHANGED <<subdirs, retVars, upVars, callVars, bucket, backupPrefix,
                   s3Up, s3Del, s3List, conRc, orchVars>>

\* applyRetentionPolicy of one run, utils.go:12-23
WList(r) ==
    /\ workers[r].pc = "list"
    /\ \E ok \in BOOLEAN :
        workers' = [workers EXCEPT ![r] =
            IF ~ok \/ WithinLimit(List(dir), conRc)
            THEN DoneWorker
            ELSE [@ EXCEPT !.pc = "loop", !.backups = List(dir), !.idx = 0]]
    /\ UNCHANGED <<storVars, callVars, bucket, backupPrefix, s3Up, s3Del,
                   s3List, conRc, orchVars>>

\* applyRetentionPolicy of one run, utils.go:24-32: one iteration of its loop
\* over the listing it holds; after the last one the pass returns nil
WDelete(r) ==
    /\ workers[r].pc = "loop"
    /\ workers[r].idx < toDelete(workers[r].backups, conRc)
    /\ \E ioOk \in BOOLEAN :
        LET name == DeleteTarget(workers[r].backups, workers[r].idx) IN
        /\ dir' = IF DeleteSucceeds(dir, name, ioOk)
                  THEN DeleteEffect(dir, name) ELSE dir
        /\ workers' = [workers EXCEPT ![r] =
                IF workers[r].idx + 1 < toDelete(workers[r].backups, conRc)
                THEN [@ EXCEPT !.idx = @ + 1]
                ELSE DoneWorker]
    /\ UNCHANGED <<subdirs, retVars, upVars, callVars, bucket, backupPrefix,
                   s3Up, s3Del, s3List, conRc, orchVars>>

\* Run(b) is not executing: the Storage handle is exercised on its own
OrchIdle ==
    /\ pc = "off"
    /\ cfg = NoConfig
    /\ err = "nil"
    /\ result = "none"
    /\ failedAt = "none"
    /\ cron = "none"
    /\ notified = FALSE
    /\ sigChan = 0
    /\ nSignals = 0
    /\ runs = [j \in RunIds |-> NoRun]
    /\ nTicks = 0
    /\ ticksAtRecv = -1
    /\ ticksAtStop = -1
    /\ inFlightAtRecv = {}
    /\ calls = <<>>

StorInit ==
    /\ dir \in SUBSET FileNames
    /\ listRes = "none"
    /\ listOut = <<>>
    /\ prevOut = NoList
    /\ delName = <<>>
    /\ delRes = "none"
    /\ retPc = "idle"
    /\ retentionCount = 0
    /\ backups = <<>>
    /\ idx = 0
    /\ listErr = FALSE
    /\ retResult = "none"
    /\ prior = {}
    /\ deleteCalls = <<>>
    /\ deleteFailed = {}
    /\ upPc = "idle"
    /\ upName = <<>>
    /\ upPrior = {}
    /\ ctxDone = FALSE
    /\ ctxDoneAtCall = FALSE
    /\ copyPc = "none"
    /\ done = <<>>
    /\ upResult = "none"

InitStorage == StorInit /\ subdirs = {} /\ S3Idle /\ ConIdle /\ OrchIdle

NextStorage ==
    \/ \E rc \in 0..MaxRetention : RetListFail(rc)
    \/ \E rc \in 0..MaxRetention : RetListOk(rc)
    \/ RetDelete
    \/ RetReturn
    \/ \E name \in FileNames, cancelled \in BOOLEAN : UpOpen(name, cancelled)
    \/ UpCreate
    \/ UpCopy
    \/ UpSelectCtx
    \/ UpSelectDone
    \/ CtxCancel

\* the Storage handle under one caller issuing Upload and retention passes
SpecStorage == InitStorage /\ [][NextStorage]_vars

\* a backup directory with files and sub-directories, no call made yet
InitLocal ==
    /\ StorInit
    /\ subdirs \in SUBSET (DirNames \ dir)
    /\ S3Idle
    /\ ConIdle
    /\ OrchIdle

NextLocal ==
    \/ \E name \in CallNames, cancelled \in BOOLEAN : UpOpen(name, cancelled)
    \/ UpCreate
    \/ UpCopy
    \/ UpSelectCtx
    \/ UpSelectDone
    \/ CtxCancel
    \/ LocalList
    \/ \E name \in CallNames : LocalDelete(name)

\* the filesystem backend under one caller issuing Upload, List and Delete
SpecLocal == InitLocal /\ [][NextLocal]_vars

\* the runs share cfg.RetentionCount and a directory holding older artifacts
InitConcurrent ==
    /\ StorInit
    /\ dir \in SUBSET OldNames
    /\ subdirs = {}
    /\ workers = [r \in RunnerIds |-> NoWorker]
    /\ conRc \in 0..MaxRetention
    /\ S3Idle
    /\ OrchIdle

NextConcurrent ==
    \/ \E r \in RunnerIds, name \in NewNames : WUpload(r, name)
    \/ \E r \in RunnerIds : WList(r)
    \/ \E r \in RunnerIds : WDelete(r)

\* overlapping invocations of b.Run, each uploading and then pruning, on one
\* LocalStorage
SpecConcurrent == InitConcurrent /\ [][NextConcurrent]_vars

\* a bucket with a backupPrefix, as NewS3Storage finds it
InitS3 ==
    /\ bucket \in SUBSET KeyUniverse
    /\ backupPrefix \in S3Prefixes
    /\ s3Up = NoS3Up
    /\ s3Del = NoS3Del
    /\ s3List = NoS3List
    /\ StorInit
    /\ dir = {}
    /\ subdirs = {}
    /\ ConIdle
    /\ OrchIdle

NextS3 ==
    \/ \E name \in S3Names : S3Upload(name)
    \/ S3List
    \/ \E name \in S3Names : S3Delete(name)

\* the object-store backend under one caller issuing Upload, List and Delete
SpecS3 == InitS3 /\ [][NextS3]_vars

\* ------------------------------------------------ the orchestrator Run(b)
\* the process is executing Run
Alive == pc \notin {"off", "returned", "killed"}

\* a return of Run with an error, at a failed startup call
ReturnError(step) ==
    /\ pc' = "returned"
    /\ result' = "error"
    /\ err' = "error"
    /\ failedAt' = step

\* the process ends: the invocations of b.Run still executing are cut off
CutOff(rs) ==
    [j \in RunIds |->
        IF rs[j].st = "running" THEN [rs[j] EXCEPT !.st = "aborted"] ELSE rs[j]]

\* the invocations that have returned an error by now
Failed(rs) == {j \in RunIds : rs[j].ret = "error"}

\* part_001:20-23  cfg, err := b.Config()
Config ==
    /\ pc = "config"
    /\ \E c \in Configs, ok \in BOOLEAN :
        /\ calls' = Append(calls, [step |-> "Config", ok |-> ok])
        /\ IF ok
           THEN /\ cfg' = c
                /\ err' = "nil"
                /\ pc' = "new"
                /\ UNCHANGED <<result, failedAt>>
           ELSE /\ ReturnError("Config")
                /\ UNCHANGED cfg
    /\ UNCHANGED <<cron, notified, sigChan, nSignals, runs, nTicks, ticksAtRecv,
                   ticksAtStop, inFlightAtRecv, storVars, callVars, otherVars>>

\* part_001:34-37  store, err := New(cfg)
NewStorage ==
    /\ pc = "new"
    /\ \E ok \in BOOLEAN :
        /\ calls' = Append(calls, [step |-> "New", ok |-> ok])
        /\ IF ok
           THEN /\ err' = "nil"
                /\ pc' = "setstorage"
                /\ UNCHANGED <<result, failedAt>>
           ELSE ReturnError("New")
    /\ UNCHANGED <<cfg, cron, notified, sigChan, nSignals, runs, nTicks,
                   ticksAtRecv, ticksAtStop, inFlightAtRecv, storVars,
                   callVars, otherVars>>

\* the same step with the bug "a failed SetStorage is only logged"
SetStorage_ignored ==
    /\ pc = "setstorage"
    /\ \E ok \in BOOLEAN :
        /\ calls' = Append(calls, [step |-> "SetStorage", ok |-> ok])
        /\ err' = IF ok THEN "nil" ELSE "error"
    /\ pc' = "testconn"
    /\ UNCHANGED <<cfg, result, failedAt, cron, notified, sigChan, nSignals,
                   runs, nTicks, ticksAtRecv, ticksAtStop, inFlightAtRecv,
                   storVars, callVars, otherVars>>

\* part_001:41-44  err = b.SetStorage(store)
SetStorage ==
    /\ pc = "setstorage"
    /\ \E ok \in BOOLEAN :
        /\ calls' = Append(calls, [step |-> "SetStorage", ok |-> ok])
        /\ IF ok
           THEN /\ err' = "nil"
                /\ pc' = "testconn"
                /\ UNCHANGED <<result, failedAt>>
           ELSE ReturnError("SetStorage")
    /\ UNCHANGED <<cfg, cron, notified, sigChan, nSignals, runs, nTicks,
                   ticksAtRecv, ticksAtStop, inFlightAtRecv, storVars,
                   callVars, otherVars>>

\* the same step with the bug "the probe's error is only logged"
TestConnection_ignored ==
    /\ pc = "testconn"
    /\ \E ok \in BOOLEAN :
        /\ calls' = Append(calls, [step |-> "TestConnection", ok |-> ok])
        /\ IF ok
           THEN /\ err' = "nil"
                /\ UNCHANGED failedAt
           ELSE /\ err' = "error"
                /\ failedAt' = "TestConnection"
    /\ pc' = "onstart"
    /\ UNCHANGED <<cfg, result, cron, notified, sigChan, nSignals, runs,
                   nTicks, ticksAtRecv, ticksAtStop, inFlightAtRecv, storVars,
                   callVars, otherVars>>

\* part_001:47-50  err = b.TestConnection(context.Background())
TestConnection ==
    /\ pc = "testconn"
    /\ \E ok \in BOOLEAN :
        /\ calls' = Append(calls, [step |-> "TestConnection", ok |-> ok])
        /\ IF ok
           THEN /\ err' = "nil"
                /\ pc' = "onstart"
                /\ UNCHANGED <<result, failedAt>>
           ELSE ReturnError("TestConnection")
    /\ UNCHANGED <<cfg, cron, notified, sigChan, nSignals, runs, nTicks,
                   ticksAtRecv, ticksAtStop, inFlightAtRecv, storVars,
                   callVars, otherVars>>

\* the same step with the bug "the initial backup runs in a goroutine"
OnStart_async ==
    /\ pc = "onstart"
    /\ IF cfg.BackupOnStart
       THEN runs' = [runs EXCEPT ![0] = [NoRun EXCEPT !.st = "running",
                                                      !.ctx = Background]]
       ELSE UNCHANGED runs
    /\ pc' = "addfunc"
    /\ UNCHANGED <<cfg, err, result, failedAt, cron, notified, sigChan,
                   nSignals, nTicks, ticksAtRecv, ticksAtStop, inFlightAtRecv,
                   calls, storVars, callVars, otherVars>>

\* part_001:53-55  if cfg.BackupOnStart, call b.Run(context.Background())
OnStart ==
    /\ pc = "onstart"
    /\ IF cfg.BackupOnStart
       THEN /\ runs' = [runs EXCEPT ![0] = [NoRun EXCEPT !.st = "running",
                                                        !.ctx = Background]]
            /\ pc' = "startrun"
       ELSE /\ pc' = "addfunc"
            /\ UNCHANGED runs
    /\ UNCHANGED <<cfg, err, result, failedAt, cron, notified, sigChan,
                   nSignals, nTicks, ticksAtRecv, ticksAtStop, inFlightAtRecv,
                   calls, storVars, callVars, otherVars>>

\* the same step with the bug "a failed initial backup is fatal"
StartRunReturn_fatal ==
    /\ pc = "startrun"
    /\ \E r \in {"nil", "error"} :
        /\ runs' = [runs EXCEPT ![0].st = "done", ![0].ret = r,
                                ![0].logged = (r = "error")]
        /\ err' = r
        /\ IF r = "error"
           THEN pc' = "returned" /\ result' = "error"
           ELSE pc' = "addfunc" /\ UNCHANGED result
    /\ UNCHANGED <<cfg, failedAt, cron, notified, sigChan, nSignals, nTicks,
                   ticksAtRecv, ticksAtStop, inFlightAtRecv, calls, storVars,
                   callVars, otherVars>>

\* part_001:55-57  the startup-triggered b.Run returns; err is assigned and a
\* failure is logged, nothing else
StartRunReturn ==
    /\ pc = "startrun"
    /\ \E r \in {"nil", "error"} :
        /\ runs' = [runs EXCEPT ![0].st = "done", ![0].ret = r,
                                ![0].logged = (r = "error")]
        /\ err' = r
    /\ pc' = "addfunc"
    /\ UNCHANGED <<cfg, result, failedAt, cron, notified, sigChan, nSignals,
                   nTicks, ticksAtRecv, ticksAtStop, inFlightAtRecv, calls,
                   storVars, callVars, otherVars>>

\* part_001:61-76  c := cron.New(); entryID, err := c.AddFunc(cfg.BackupCron, ...)
AddFunc ==
    /\ pc = "addfunc"
    /\ IF ScheduleOK(cfg.BackupCron)
       THEN /\ cron' = "registered"
            /\ err' = "nil"
            /\ pc' = "start"
            /\ UNCHANGED <<result, failedAt>>
       ELSE /\ cron' = "new"
            /\ ReturnError("AddFunc")
    /\ UNCHANGED <<cfg, notified, sigChan, nSignals, runs, nTicks,
                   ticksAtRecv, ticksAtStop, inFlightAtRecv, calls, storVars,
                   callVars, otherVars>>

\* part_001:79  c.Start()
CronStart ==
    /\ pc = "start"
    /\ cron' = "running"
    /\ pc' = "notify"
    /\ UNCHANGED <<cfg, err, result, failedAt, notified, sigChan, nSignals,
                   runs, nTicks, ticksAtRecv, ticksAtStop, inFlightAtRecv,
                   calls, storVars, callVars, otherVars>>

\* part_001:89-90  sigChan := make(chan os.Signal, 1); signal.Notify(...)
Notify ==
    /\ pc = "notify"
    /\ notified' = TRUE
    /\ pc' = "wait"
    /\ UNCHANGED <<cfg, err, result, failedAt, cron, sigChan, nSignals, runs,
                   nTicks, ticksAtRecv, ticksAtStop, inFlightAtRecv, calls,
                   storVars, callVars, otherVars>>

\* SIGINT or SIGTERM is sent to the process.  Before signal.Notify the Go
\* runtime's default applies and the program exits at once; after it the
\* signal is sent to sigChan without blocking (dropped when the buffer is full)
Signal ==
    /\ Alive
    /\ nSignals < MaxSignals
    /\ nSignals' = nSignals + 1
    /\ IF notified
       THEN /\ sigChan' = Min(1, sigChan + 1)
            /\ UNCHANGED <<pc, runs>>
       ELSE /\ pc' = "killed"
            /\ runs' = CutOff(runs)
            /\ UNCHANGED sigChan
    /\ UNCHANGED <<cfg, err, result, failedAt, cron, notified, nTicks,
                   ticksAtRecv, ticksAtStop, inFlightAtRecv, calls, storVars,
                   callVars, otherVars>>

\* the same step with the bug fixed by cron.SkipIfStillRunning: a tick is
\* skipped while a job is executing
Tick_singleflight ==
    /\ Alive
    /\ cron = "running"
    /\ nTicks < MaxTicks
    /\ \A j \in JobIds : runs[j].st \notin {"running", "assigned"}
    /\ nTicks' = nTicks + 1
    /\ runs' = [runs EXCEPT ![nTicks + 1] =
                    [NoRun EXCEPT !.st = "running", !.ctx = WithTimeout,
                                  !.failedBefore = Failed(runs)]]
    /\ UNCHANGED <<pc, cfg, err, result, failedAt, cron, notified, sigChan,
                   nSignals, ticksAtRecv, ticksAtStop, inFlightAtRecv, calls,
                   storVars, callVars, otherVars>>

\* part_001:64-66  the scheduler fires: the closure starts in a goroutine of
\* its own, builds its ctx and calls b.Run(ctx).  cron.New() wraps the job in
\* no chain, so a tick does not look at the jobs still executing
Tick ==
    /\ Alive
    /\ cron = "running"
    /\ nTicks < MaxTicks
    /\ nTicks' = nTicks + 1
    /\ runs' = [runs EXCEPT ![nTicks + 1] =
                    [NoRun EXCEPT !.st = "running", !.ctx = WithTimeout,
                                  !.failedBefore = Failed(runs)]]
    /\ UNCHANGED <<pc, cfg, err, result, failedAt, cron, notified, sigChan,
                   nSignals, ticksAtRecv, ticksAtStop, inFlightAtRecv, calls,
                   storVars, callVars, otherVars>>

\* the deadline of the ctx of an executing b.Run passes
Deadline ==
    /\ Alive
    /\ \E j \in RunIds :
        /\ runs[j].st = "running"
        /\ runs[j].ctx.deadline
        /\ runs[j].ctx.err = "nil"
        /\ runs' = [runs EXCEPT ![j].ctx.err = "DeadlineExceeded"]
    /\ UNCHANGED <<pc, cfg, err, result, failedAt, cron, notified, sigChan,
                   nSignals, nTicks, ticksAtRecv, ticksAtStop, inFlightAtRecv,
                   calls, storVars, callVars, otherVars>>

\* part_001:69  err = b.Run(ctx): a scheduled b.Run returns and the closure
\* stores the result in the captured err
JobRunReturn ==
    /\ Alive
    /\ \E j \in JobIds, r \in {"nil", "error"} :
        /\ runs[j].st = "running"
        /\ runs' = [runs EXCEPT ![j].st = "assigned", ![j].ret = r]
        /\ err' = r
    /\ UNCHANGED <<pc, cfg, result, failedAt, cron, notified, sigChan,
                   nSignals, nTicks, ticksAtRecv, ticksAtStop, inFlightAtRecv,
                   calls, storVars, callVars, otherVars>>

\* part_001:67,69-72  if err != nil, log "Backup failed"; the closure ends and
\* its deferred cancel() runs
JobCheck ==
    /\ Alive
    /\ \E j \in JobIds :
        /\ runs[j].st = "assigned"
        /\ runs' = [runs EXCEPT ![j].st = "done",
                                ![j].logged = (err /= "nil"),
                                ![j].ctx.err = IF @ = "nil" THEN "Canceled" ELSE @]
    /\ UNCHANGED <<pc, cfg, err, result, failedAt, cron, notified, sigChan,
                   nSignals, nTicks, ticksAtRecv, ticksAtStop, inFlightAtRecv,
                   calls, storVars, callVars, otherVars>>

\* part_001:92-93  sig := <-sigChan
Receive ==
    /\ pc = "wait"
    /\ sigChan > 0
    /\ sigChan' = sigChan - 1
    /\ pc' = "stop"
    /\ ticksAtRecv' = nTicks
    /\ inFlightAtRecv' = {j \in JobIds : runs[j].st \in {"running", "assigned"}}
    /\ UNCHANGED <<cfg, err, result, failedAt, cron, notified, nSignals, runs,
                   nTicks, ticksAtStop, calls, storVars, callVars, otherVars>>

\* part_001:96  ctx := c.Stop(): the scheduler fires no more
CronStop ==
    /\ pc = "stop"
    /\ cron' = "stopped"
    /\ pc' = "drain"
    /\ ticksAtStop' = nTicks
    /\ UNCHANGED <<cfg, err, result, failedAt, notified, sigChan, nSignals,
                   runs, nTicks, ticksAtRecv, inFlightAtRecv, calls, storVars,
                   callVars, otherVars>>

\* the same step with the bug "return without <-ctx.Done()"
Drain_nowait ==
    /\ pc = "drain"
    /\ pc' = "returned"
    /\ result' = "nil"
    /\ runs' = CutOff(runs)
    /\ UNCHANGED <<cfg, err, failedAt, cron, notified, sigChan, nSignals,
                   nTicks, ticksAtRecv, ticksAtStop, inFlightAtRecv, calls,
                   storVars, callVars, otherVars>>

\* part_001:97-100  <-ctx.Done() unblocks when every job the scheduler started
\* has ended; Run returns nil
Drain ==
    /\ pc = "drain"
    /\ \A j \in JobIds : runs[j].st \in {"none", "done"}
    /\ pc' = "returned"
    /\ result' = "nil"
    /\ runs' = CutOff(runs)
    /\ UNCHANGED <<cfg, err, failedAt, cron, notified, sigChan, nSignals,
                   nTicks, ticksAtRecv, ticksAtStop, inFlightAtRecv, calls,
                   storVars, callVars, otherVars>>

\* Run(b) is about to execute; the Storage handle is not exercised
OrchInit ==
    /\ pc = "config"
    /\ cfg = NoConfig
    /\ err = "nil"
    /\ result = "none"
    /\ failedAt = "none"
    /\ cron = "none"
    /\ notified = FALSE
    /\ sigChan = 0
    /\ nSignals = 0
    /\ runs = [j \in RunIds |-> NoRun]
    /\ nTicks = 0
    /\ ticksAtRecv = -1
    /\ ticksAtStop = -1
    /\ inFlightAtRecv = {}
    /\ calls = <<>>

Init == OrchInit /\ StorInit /\ dir = {} /\ subdirs = {} /\ S3Idle /\ ConIdle

Next ==
    \/ Config
    \/ NewStorage
    \/ SetStorage
    \/ TestConnection
    \/ OnStart
    \/ StartRunReturn
    \/ AddFunc
    \/ CronStart
    \/ Notify
    \/ Signal
    \/ Tick
    \/ Deadline
    \/ JobRunReturn
    \/ JobCheck
    \/ Receive
    \/ CronStop
    \/ Drain

\* one execution of the orchestrator Run(b)
Spec == Init /\ [][Next]_vars


\* ------------------------------------------- properties of the retention pass
\* the artifacts of a directory: the names List reports
Artifacts(entries) == {n \in entries : isBackupFile(n)}

\* the k lexicographically smallest names of a set
Smallest(S, k) == {x \in S : Cardinality({y \in S : StrLess(y, x)}) < k}

\* the k lexicographically largest names of a set
Largest(S, k) == {x \in S : Cardinality({y \in S : StrLess(x, y)}) < k}

\* a pass that went through List and has returned nil
PassCompleted == retPc = "done" /\ ~listErr

\* C1: for a listing of n names and a RetentionCount rc >= 0, one pass issues
\* exactly max(0, n - rc) Delete calls, on the n - rc lexicographically
\* smallest listed names, each once, in strictly ascending order; none when
\* n <= rc, and one for every listed name when rc = 0.  While the pass is
\* running the calls issued so far are among those names, in that order.
C1_DeletesOldest ==
    LET n == Len(backups)
        k == Max(0, n - retentionCount)
    IN  /\ Range(deleteCalls) \subseteq Smallest(Range(backups), k)
        /\ \A a, b \in 1..Len(deleteCalls) :
              a < b => StrLess(deleteCalls[a], deleteCalls[b])
        /\ PassCompleted =>
              /\ Len(deleteCalls) = k
              /\ Range(deleteCalls) = Smallest(Range(backups), k)
              /\ (n <= retentionCount => deleteCalls = <<>>)
              /\ (retentionCount = 0 => Range(deleteCalls) = Range(backups))

\* C1 witness: a finished pass that deleted two names and kept at least one
C1_Witness ==
    /\ PassCompleted
    /\ retentionCount >= 1
    /\ Len(backups) = retentionCount + 2
    /\ Len(deleteCalls) = 2

\* C2 as stated: after a completed pass at most min(priorCount, rc) artifacts
\* remain, and they are the newest ones of the prior set
C2_Original ==
    PassCompleted =>
        LET priorSet == Artifacts(prior)
            left == Artifacts(dir)
        IN  /\ Cardinality(left) <= Min(Cardinality(priorSet), retentionCount)
            /\ left = Largest(priorSet, Cardinality(left))

\* C2 amended: after a completed pass the min(priorCount, rc) newest artifacts
\* of the prior set all remain, every artifact the pass removed is older than
\* each of them, nothing else in the directory changed, and the number that
\* remains is min(priorCount, rc) plus the number of selected artifacts whose
\* Delete failed: exactly the newest min(priorCount, rc) when none failed.
C2_NewestRetained ==
    PassCompleted =>
        LET priorSet == Artifacts(prior)
            left == Artifacts(dir)
            keep == Min(Cardinality(priorSet), retentionCount)
        IN  /\ Largest(priorSet, keep) \subseteq left
            /\ left \subseteq priorSet
            /\ dir \ left = prior \ priorSet
            /\ \A x \in priorSet \ left :
                  \A y \in Largest(priorSet, keep) : StrLess(x, y)
            /\ Cardinality(left) = keep + Cardinality(deleteFailed)
            /\ (deleteFailed = {} => left = Largest(priorSet, keep))

\* C2 witness: a completed pass that removed one artifact, failed to remove
\* another and kept at least one
C2_Witness ==
    /\ PassCompleted
    /\ retentionCount >= 1
    /\ Cardinality(deleteFailed) = 1
    /\ Cardinality(Artifacts(prior) \ Artifacts(dir)) = 1

\* C8: a failing Delete does not abort the pass: once some Delete has failed
\* the pass does not return an error, and when it has returned every one of
\* the n - rc selected names has had its Delete attempted
C8_FailureIsolated ==
    deleteFailed /= {} =>
        /\ retResult /= "error"
        /\ retPc = "done" =>
              /\ retResult = "nil"
              /\ \A k \in 1..(Len(backups) - retentionCount) :
                    backups[k] \in Range(deleteCalls)

\* C8 witness: the first Delete of a pass failed and a later one was still
\* issued and succeeded
C8_Witness ==
    /\ retPc = "done"
    /\ Len(deleteCalls) >= 2
    /\ deleteCalls[1] \in deleteFailed
    /\ deleteCalls[2] \notin deleteFailed
    /\ deleteCalls[2] \notin dir

\* C9: when List fails the pass returns an error, has issued no Delete and
\* the stored files are the ones it was called with
C9_ListFailureAborts ==
    listErr =>
        /\ retPc = "done"
        /\ retResult = "error"
        /\ deleteCalls = <<>>
        /\ dir = prior

\* C9 witness: List failed on a directory holding more artifacts than the
\* RetentionCount, which a successful List would have pruned
C9_Witness ==
    /\ listErr
    /\ retPc = "done"
    /\ Cardinality(Artifacts(dir)) > retentionCount

\* ------------------------------------------------ properties of Upload
\* C10 as stated: an Upload called with an already cancelled or expired ctx,
\* whose source and destination opened, returns ctx.Err() and nothing else,
\* and its select is never blocked
C10_Original ==
    ctxDoneAtCall =>
        /\ upPc = "select" => ENABLED UpSelectCtx
        /\ (upPc = "returned" /\ upResult \notin {"openErr", "createErr"}) =>
              upResult = "ctxErr"

\* ------------------------------------------------ properties of Run(b)
\* C3: a failed startup call (Config, New, SetStorage, TestConnection, or
\* AddFunc on a malformed expression) makes Run return an error with the job
\* never registered, the scheduler never started and no tick fired; when one
\* of the calls up to TestConnection failed, b.Run was never invoked
C3_StartupFailureFatal ==
    failedAt /= "none" =>
        /\ pc = "returned"
        /\ result = "error"
        /\ cron \in {"none", "new"}
        /\ nTicks = 0
        /\ failedAt \in {"Config", "New", "SetStorage", "TestConnection"} =>
              \A j \in RunIds : runs[j].st = "none"

\* C3 witness: TestConnection failed under a configuration that asks for a
\* backup on start and carries a well-formed schedule
C3_Witness ==
    /\ failedAt = "TestConnection"
    /\ cfg.BackupOnStart
    /\ ScheduleOK(cfg.BackupCron)

\* C4 as stated: once main has received the signal no new b.Run starts, Run
\* returns only after the runs in flight at that moment have completed, no
\* executing run has its ctx cancelled, and Run returns nil
C4_Original ==
    ticksAtRecv /= -1 =>
        /\ nTicks = ticksAtRecv
        /\ \A j \in JobIds : runs[j].st /= "aborted"
        /\ \A j \in JobIds : runs[j].st = "running" => runs[j].ctx.err /= "Canceled"
        /\ pc = "returned" =>
              /\ result = "nil"
              /\ \A j \in inFlightAtRecv : runs[j].st = "done"

\* C4 amended: once c.Stop() has been called no new b.Run starts (a tick
\* that fires between the receipt of the signal and c.Stop() still starts
\* one); Run returns only after every scheduled run, those in flight at the
\* receipt included, has completed by itself, none of them cut off and
\* none with its ctx cancelled while it executes; and Run returns nil
C4_GracefulShutdown ==
    /\ ticksAtStop /= -1 => nTicks = ticksAtStop
    /\ ticksAtRecv /= -1 =>
        /\ \A j \in JobIds : runs[j].st /= "aborted"
        /\ \A j \in JobIds : runs[j].st = "running" => runs[j].ctx.err /= "Canceled"
        /\ pc = "returned" =>
              /\ result = "nil"
              /\ inFlightAtRecv \subseteq 1..nTicks
              /\ \A j \in 1..nTicks : runs[j].st = "done"

\* C4 witness: Run has returned after a shutdown during which one run was in
\* flight at the receipt of the signal and another was started before c.Stop()
C4_Witness ==
    /\ pc = "returned"
    /\ result = "nil"
    /\ inFlightAtRecv /= {}
    /\ nTicks > ticksAtRecv

\* C5 as stated: no invocation of b.Run, the startup-triggered one included,
\* is cut off by a termination signal
C5_Original == \A j \in RunIds : runs[j].st /= "aborted"

\* C6 as stated: every executing invocation of b.Run, startup-triggered or
\* scheduled, has a ctx with the per-run deadline
C6_Original == \A j \in RunIds : runs[j].st = "running" => runs[j].ctx.deadline

\* C7: a failed b.Run never stops the orchestrator: Run returns an error only
\* at a failed startup call, never because b.Run failed; after a failed
\* scheduled run the scheduler is still running while main waits, and as long
\* as it runs the next tick can fire
C7_RunFailureNotFatal ==
    /\ result = "error" => failedAt /= "none"
    /\ (Failed(runs) /= {} /\ pc \in {"notify", "wait"}) => cron = "running"
    /\ (Alive /\ cron = "running" /\ nTicks < MaxTicks) => ENABLED Tick

\* C7 witness: the startup-triggered run failed, the scheduler was started
\* all the same, the first scheduled run failed too and a later tick has
\* started the next run
C7_Witness ==
    /\ cron = "running"
    /\ runs[0].ret = "error"
    /\ 0 \in runs[1].failedBefore
    /\ runs[1].st = "done"
    /\ runs[1].ret = "error"
    /\ runs[2].st = "running"
    /\ 1 \in runs[2].failedBefore

\* C14 as stated: a scheduled b.Run that returned an error has its
\* "Backup failed" line logged by its own closure, and one that returned nil
\* has none, overlapping invocations included
C14_Original ==
    \A j \in JobIds :
        runs[j].st = "done" => (runs[j].logged <=> runs[j].ret = "error")

\* C15: the scheduler has no single-flight guard: while a scheduled b.Run is
\* still in flight and the scheduler runs, the next tick can fire and start
\* another invocation
C15_NoSingleFlight ==
    (/\ Alive
     /\ cron = "running"
     /\ nTicks < MaxTicks
     /\ \E j \in JobIds : runs[j].st \in {"running", "assigned"})
        => ENABLED Tick

\* C15 witness: the second tick has started b.Run while the invocation of
\* the first tick is still executing
C15_Witness ==
    /\ runs[1].st = "running"
    /\ runs[2].st = "running"

\* C16 as stated: b.Run, the startup-triggered invocation included, is
\* invoked only once the schedule expression is accepted and the job is
\* registered, so never under a malformed schedule expression
C16_Original ==
    /\ \A j \in RunIds :
        runs[j].st /= "none" => cron \in {"registered", "running", "stopped"}
    /\ (cfg /= NoConfig /\ cfg.BackupCron /= "0 2 * * *")
        => \A j \in RunIds : runs[j].st = "none"

\* C16 amended: a scheduled b.Run is invoked only once the schedule
\* expression is accepted, the job registered and the scheduler started, so
\* never under a malformed expression; the startup-triggered b.Run is
\* invoked only when BackupOnStart is set and the four startup calls have
\* succeeded, and by the time c.AddFunc rejects a malformed expression it
\* has already run
C16_ScheduledAfterRegistration ==
    /\ \A j \in JobIds :
        runs[j].st /= "none" =>
            /\ cron \in {"running", "stopped"}
            /\ cfg.BackupCron = "0 2 * * *"
    /\ runs[0].st /= "none" =>
            /\ cfg.BackupOnStart
            /\ Len(calls) = 4
            /\ \A k \in 1..4 : calls[k].ok
    /\ (failedAt = "AddFunc" /\ cfg.BackupOnStart) => runs[0].st = "done"
    /\ failedAt = "AddFunc" => cfg.BackupCron /= "0 2 * * *"

\* C16 witness: the startup-triggered run has executed and c.AddFunc then
\* rejected the schedule expression
C16_Witness ==
    /\ failedAt = "AddFunc"
    /\ runs[0].st = "done"
    /\ cron = "new"

\* the startup calls in the order of Run
StartupSteps == <<"Config", "New", "SetStorage", "TestConnection">>

\* C17: the startup calls are made at most once each, in the order Config,
\* New, SetStorage, TestConnection, none after one that failed; and when any
\* b.Run is invoked SetStorage has succeeded and TestConnection has been
\* called, once, after it
C17_StartupOrder ==
    /\ Len(calls) <= 4
    /\ \A k \in 1..Len(calls) : calls[k].step = StartupSteps[k]
    /\ \A k \in 1..(Len(calls) - 1) : calls[k].ok
    /\ \A j \in RunIds :
        runs[j].st /= "none" =>
            /\ Len(calls) = 4
            /\ calls[3] = [step |-> "SetStorage", ok |-> TRUE]
            /\ calls[4].step = "TestConnection"
            /\ Cardinality({k \in 1..Len(calls) :
                                calls[k].step = "TestConnection"}) = 1

\* C17 witness: the startup-triggered run and a scheduled run have both been
\* invoked
C17_Witness ==
    /\ runs[0].st = "done"
    /\ runs[1].st /= "none"
    /\ Len(calls) = 4

\* C20: while the startup-triggered b.Run executes, cron.New() has not been
\* called and no scheduled b.Run exists; once the scheduler exists, and
\* whenever a scheduled b.Run exists, the startup-triggered one is over
C20_StartupRunAlone ==
    /\ runs[0].st = "running" =>
            /\ cron = "none"
            /\ nTicks = 0
            /\ \A j \in JobIds : runs[j].st = "none"
    /\ cron /= "none" => runs[0].st \in {"none", "done"}
    /\ \A j \in JobIds : runs[j].st /= "none" => runs[0].st \in {"none", "done"}

\* C20 witness: a scheduled run executes after the startup-triggered run
\* has returned
C20_Witness ==
    /\ runs[0].st = "done"
    /\ runs[1].st = "running"


\* ------------------------------------------- properties of the two backends
\* C11: once Delete(name) has returned nil, a List that follows it, with no
\* Upload in between, does not report name; stated for the object-store
\* backend, whose List reports the base name of every key under the prefix
\* while its Delete removes the one key getKey(name)
C11_Original ==
    (s3Del.res = "nil" /\ s3List.res = "nil") =>
        s3Del.name \notin Range(s3List.out)

\* C18 as stated, for the object-store backend: a Delete(name) that returns
\* nil has removed the object of name and nothing else, and a Delete of a
\* name that has no object returns an error and changes nothing
C18_Original ==
    s3Del.res /= "none" =>
        IF getKey(backupPrefix, s3Del.name) \in s3Del.before
        THEN /\ s3Del.res = "nil"
                => bucket = s3Del.before \ {getKey(backupPrefix, s3Del.name)}
             /\ s3Del.res = "error" => bucket = s3Del.before
        ELSE /\ s3Del.res = "error"
             /\ bucket = s3Del.before

\* C12: a List that follows an Upload(name) that returned nil, with no Delete
\* and no retention pass in between, reports name, for every name of the
\* naming convention; and a List that directly follows another List returns
\* the same listing
C12_UploadListed ==
    /\ (listRes = "nil" /\ upPc = "returned" /\ upResult = "nil"
            /\ isBackupFile(upName))
        => upName \in Range(listOut)
    /\ (listRes = "nil" /\ prevOut.valid) => listOut = prevOut.out

\* a name absent before was uploaded and then listed twice
C12_Witness ==
    /\ listRes = "nil"
    /\ upPc = "returned"
    /\ upResult = "nil"
    /\ isBackupFile(upName)
    /\ upName \notin upPrior
    /\ upName \in Range(listOut)
    /\ prevOut.valid
    /\ prevOut.out = listOut

\* the names of FileNames and CallNames that start with "pg-backup_" and end
\* with .dump, .sql, .sql.gz or .tar
ConventionNames == {Name1, Name10, Name2, Name3, Name4}

StrictlyAscending(q) == \A k \in 1..(Len(q) - 1) : StrLess(q[k], q[k + 1])

\* C13: List returns exactly the names of the stored regular files that
\* follow the naming convention, no directory, in strictly ascending order;
\* "pg-backup_1.dump" is reported when stored, "readme.txt" and
\* "pg-backup_1.dump.tmp" never
C13_ListExact ==
    listRes = "nil" =>
        /\ Range(listOut) = dir \cap ConventionNames
        /\ Range(listOut) \cap subdirs = {}
        /\ StrictlyAscending(listOut)
        /\ Name1 \in dir => Name1 \in Range(listOut)
        /\ NameReadme \notin Range(listOut)
        /\ NameTmp \notin Range(listOut)

\* a directory with files of and outside the convention and a sub-directory
\* named like an artifact was listed
C13_Witness ==
    /\ listRes = "nil"
    /\ {Name1, Name10, Name2, Name4, NameReadme, NameTmp} \subseteq dir
    /\ Name3 \in subdirs
    /\ listOut = <<Name1, Name10, Name2, Name4>>

\* C19: when runs overlap, each uploading a name larger than every stored
\* one and then pruning with the same RetentionCount, no step removes one of
\* the RetentionCount newest artifacts stored at that moment, and a storage
\* holding at least RetentionCount artifacts never drops below that count
C19_NewestSurvive ==
    [][ /\ \A x \in dir \ dir' : x \notin Largest(Artifacts(dir), conRc)
        /\ Cardinality(Artifacts(dir)) >= conRc
           => Cardinality(Artifacts(dir')) >= conRc ]_vars

\* C19 witness: two retention passes over different listings are in their
\* loops at once, each has called Delete, and the artifact the first is about
\* to delete from its older listing has been removed by the second
C19_Witness ==
    /\ conRc >= 1
    /\ workers[1].pc = "loop"
    /\ workers[2].pc = "loop"
    /\ workers[1].backups /= workers[2].backups
    /\ workers[1].idx > 0
    /\ workers[2].idx > 0
    /\ DeleteTarget(workers[1].backups, workers[1].idx) \notin dir

====
